---- MODULE Spec2Model ----
(***************************************************************************)
(* The strip queries of source/blender/sequencer/intern/iterator.cc:       *)
(* the recursive traversals of a seqbase tree, the rendered-strips filter, *)
(* the effect-chain query and the unique-name resolver.                    *)
(*                                                                         *)
(* A strip is a number 1..n; NULL (0) is the null pointer.  Container 0 is *)
(* the scene's root seqbase (ed->seqbase); container m > 0 is the seqbase  *)
(* of strip m.  A name is a sequence of one-character strings.             *)
(***************************************************************************)
EXTENDS Integers, Sequences, FiniteSets, TLC

\* Bounds of the model.
MaxStrips == 3
\* strips of the tree specifications (SpecIter, SpecName)

NULL == 0

VARIABLES
  seqbase,     \* container -> the list of its strips (ListBase)
  type,        \* Strip::type
  name,        \* Strip::name + 2
  seq1, seq2,  \* Strip::seq1, Strip::seq2: the inputs of an effect strip
  machine,     \* Strip::machine: the channel
  blend_mode,  \* Strip::blend_mode
  muted,       \* the strips SEQ_render_is_muted holds for
  strips,      \* the VectorSet<Strip *> a query works on
  stack,       \* the activation records of a running recursive query, the
               \* calls a remove_if made of its predicate
  ncalls,      \* invocations of the running recursive query so far
  expanded,    \* strip -> how often the running query went past its
               \* membership test for the strip
  fn, args, ret, \* the operation last called, its arguments, its result
  old_name     \* the names when the operation last called began

treeVars == <<seqbase, type, name>>
stripVars == <<seq1, seq2, machine, blend_mode, muted>>
workVars == <<strips, stack, ncalls, expanded>>
callVars == <<fn, args, ret>>
snapVars == <<old_name>>
vars == <<treeVars, stripVars, workVars, callVars, snapVars>>

------------------------------------------------------------------------------
(* Sequences and sets *)

Range(s) == {s[i] : i \in 1..Len(s)}

NoDup(s) == \A i, j \in 1..Len(s) : i /= j => s[i] /= s[j]

\* The position of x in s (0 when absent).
IndexOf(s, x) == IF x \in Range(s) THEN CHOOSE i \in 1..Len(s) : s[i] = x ELSE 0

Min(S) == CHOOSE x \in S : \A y \in S : x <= y

RECURSIVE Ascending(_)
Ascending(S) == IF S = {} THEN <<>> ELSE <<Min(S)>> \o Ascending(S \ {Min(S)})

------------------------------------------------------------------------------
(* The parts of the state an operation does not use *)

NoInputs(S) == seq1 = [e \in S |-> NULL] /\ seq2 = [e \in S |-> NULL]

NoRenderState(S) ==
  /\ machine = [e \in S |-> 1]
  /\ blend_mode = [e \in S |-> "ALPHAOVER"]
  /\ muted = {}

NoWork(S) ==
  /\ strips = <<>>
  /\ stack = <<>>
  /\ ncalls = 0
  /\ expanded = [e \in S |-> 0]

NoCall == fn = "none" /\ args = <<>> /\ ret = <<>> /\ old_name = <<>>

------------------------------------------------------------------------------
(* The seqbase tree *)

TreeStrips == 1..MaxStrips

\* The seqbase tree with parent container p[e] of strip e, siblings in the
\* order of their numbers.
SeqbaseOf(p) == [c \in 0..MaxStrips |-> Ascending({e \in TreeStrips : p[e] = c})]

\* Every strip below a container sits after it, so the containers form a tree.
Parents == {p \in [TreeStrips -> 0..MaxStrips] : \A e \in TreeStrips : p[e] < e}

\* DNA invariant: only a meta strip owns a nested seqbase (an empty meta is
\* possible).
TreeTypes(p) ==
  {t \in [TreeStrips -> {"META", "IMAGE"}] :
     \A e \in TreeStrips : p[e] /= 0 => t[p[e]] = "META"}

\* The strips of container c, nested ones included.
RECURSIVE StripsBelow(_)
StripsBelow(c) ==
  Range(seqbase[c]) \cup UNION {StripsBelow(m) : m \in Range(seqbase[c])}

\* The container that holds strip e directly.
ContainerOf(e) == CHOOSE c \in DOMAIN seqbase : e \in Range(seqbase[c])

------------------------------------------------------------------------------
(* Traversal: SEQ_for_each_callback *)

\* A callback that signals stop on the strips of user_data and continue on
\* all others.
callback(seq, user_data) == seq \notin user_data

\* Mutant: the result of the nested traversal is dropped, so a stop signalled
\* inside a meta strip does not end the walk of the outer list.
RECURSIVE seq_for_each_recursive_NestedStopLost(_, _, _)
seq_for_each_recursive_NestedStopLost(list, user_data, calls) ==
  IF list = <<>> THEN [continue |-> TRUE, calls |-> calls]
  ELSE LET seq == Head(list)
           called == Append(calls, seq)
       IN IF ~callback(seq, user_data)
            THEN [continue |-> FALSE, calls |-> called]
            ELSE IF type[seq] = "META"
              THEN seq_for_each_recursive_NestedStopLost(
                     Tail(list), user_data,
                     seq_for_each_recursive_NestedStopLost(
                       seqbase[seq], user_data, called).calls)
              ELSE seq_for_each_recursive_NestedStopLost(Tail(list), user_data, called)

\* Walks `list` (the rest of one seqbase) after the calls `calls`; the result
\* is the function's return value and the calls made so far.
RECURSIVE seq_for_each_recursive(_, _, _)
seq_for_each_recursive(list, user_data, calls) ==
  IF list = <<>> THEN [continue |-> TRUE, calls |-> calls]
  ELSE LET seq == Head(list)
           called == Append(calls, seq)
       IN IF ~callback(seq, user_data)
            THEN [continue |-> FALSE, calls |-> called]
            ELSE IF type[seq] = "META"
              THEN LET nested == seq_for_each_recursive(seqbase[seq], user_data, called)
                   IN IF ~nested.continue
                        THEN nested
                        ELSE seq_for_each_recursive(Tail(list), user_data, nested.calls)
              ELSE seq_for_each_recursive(Tail(list), user_data, called)

\* The sequence of strips the callback is invoked on.
SEQ_for_each_callback(c, user_data) ==
  seq_for_each_recursive(seqbase[c], user_data, <<>>).calls

------------------------------------------------------------------------------
(* Structural queries *)

\* VectorSet::add: appends a key that is not in the set yet.
VectorSetAdd(keys, seq) == IF seq \in Range(keys) THEN keys ELSE Append(keys, seq)

\* Mutant: the meta strip is added before its nested keys (pre-order).
RECURSIVE query_all_strips_recursive_MetaFirst(_, _)
query_all_strips_recursive_MetaFirst(list, keys) ==
  IF list = <<>> THEN keys
  ELSE LET seq == Head(list)
           added == VectorSetAdd(keys, seq)
       IN query_all_strips_recursive_MetaFirst(
            Tail(list),
            IF type[seq] = "META"
              THEN query_all_strips_recursive_MetaFirst(seqbase[seq], added)
              ELSE added)

RECURSIVE query_all_strips_recursive(_, _)
query_all_strips_recursive(list, keys) ==
  IF list = <<>> THEN keys
  ELSE LET seq == Head(list)
           nested == IF type[seq] = "META"
                       THEN query_all_strips_recursive(seqbase[seq], keys)
                       ELSE keys
       IN query_all_strips_recursive(Tail(list), VectorSetAdd(nested, seq))

SEQ_query_all_strips_recursive(c) == query_all_strips_recursive(seqbase[c], <<>>)

\* Mutant: the direct children are all compared first, the nested seqbases
\* only when none of them matches.
RECURSIVE get_sequence_by_name_DirectFirst(_, _, _)
get_sequence_by_name_DirectFirst(list, nm, recursive) ==
  LET direct == {i \in 1..Len(list) : name[list[i]] = nm}
      nested == {i \in 1..Len(list) :
                   /\ recursive
                   /\ seqbase[list[i]] /= <<>>
                   /\ get_sequence_by_name_DirectFirst(seqbase[list[i]], nm, TRUE) /= NULL}
  IN IF direct /= {} THEN list[Min(direct)]
     ELSE IF nested /= {}
       THEN get_sequence_by_name_DirectFirst(seqbase[list[Min(nested)]], nm, TRUE)
       ELSE NULL

RECURSIVE get_sequence_by_name(_, _, _)
get_sequence_by_name(list, nm, recursive) ==
  IF list = <<>> THEN NULL
  ELSE LET iseq == Head(list)
       IN IF nm = name[iseq] THEN iseq
          ELSE LET rseq == IF recursive /\ seqbase[iseq] /= <<>>
                             THEN get_sequence_by_name(seqbase[iseq], nm, TRUE)
                             ELSE NULL
               IN IF rseq /= NULL THEN rseq
                  ELSE get_sequence_by_name(Tail(list), nm, recursive)

SEQ_get_sequence_by_name(c, nm, recursive) == get_sequence_by_name(seqbase[c], nm, recursive)

------------------------------------------------------------------------------
(* SpecIter: the traversals and lookups applied to every small seqbase tree *)

IterNames == {<<"a">>, <<"b">>}

\* The containers a query may be started on: the root and every meta strip.
Containers == {0} \cup {m \in DOMAIN type : type[m] = "META"}

InitIter ==
  /\ \E p \in Parents :
       /\ seqbase = SeqbaseOf(p)
       /\ type \in TreeTypes(p)
  /\ name \in [TreeStrips -> IterNames]
  /\ NoInputs(TreeStrips)
  /\ NoRenderState(TreeStrips)
  /\ NoWork(TreeStrips)
  /\ NoCall

ForEachCallback ==
  \E c \in Containers, user_data \in SUBSET TreeStrips :
    /\ fn' = "SEQ_for_each_callback"
    /\ args' = <<c, user_data>>
    /\ ret' = SEQ_for_each_callback(c, user_data)
    /\ UNCHANGED <<snapVars, treeVars, stripVars, workVars>>

QueryAllStripsRecursive ==
  \E c \in Containers :
    /\ fn' = "SEQ_query_all_strips_recursive"
    /\ args' = <<c>>
    /\ ret' = SEQ_query_all_strips_recursive(c)
    /\ UNCHANGED <<snapVars, treeVars, stripVars, workVars>>

GetSequenceByName ==
  \E c \in Containers, nm \in IterNames, recursive \in BOOLEAN :
    /\ fn' = "SEQ_get_sequence_by_name"
    /\ args' = <<c, nm, recursive>>
    /\ ret' = SEQ_get_sequence_by_name(c, nm, recursive)
    /\ UNCHANGED <<snapVars, treeVars, stripVars, workVars>>

NextIter == ForEachCallback \/ QueryAllStripsRecursive \/ GetSequenceByName

SpecIter == InitIter /\ [][NextIter]_vars

------------------------------------------------------------------------------
(* Orders on the strips of a tree, stated without the traversals *)

\* Strip e is strip x or lies in a seqbase nested below x.
InBranch(e, x) == e = x \/ e \in StripsBelow(x)

\* a and b lie in different branches of one seqbase, a's branch first.
BranchBefore(a, b) ==
  \E c \in DOMAIN seqbase : \E i, j \in 1..Len(seqbase[c]) :
    i < j /\ InBranch(a, seqbase[c][i]) /\ InBranch(b, seqbase[c][j])

\* Pre-order: a strip before the strips nested in it, a branch before the
\* next sibling's.
PreBefore(a, b) == b \in StripsBelow(a) \/ BranchBefore(a, b)

\* Post-order: the strips nested in a strip before the strip itself.
PostBefore(a, b) == a \in StripsBelow(b) \/ BranchBefore(a, b)

------------------------------------------------------------------------------
(* Claims about the traversals (SpecIter) *)

\* C2: SEQ_for_each_callback calls the callback at most once per strip, only
\* on strips of the container or of its nested containers, in pre-order, and
\* on exactly the strips that no stop-signalling strip precedes: on every
\* strip when the callback never signals stop, on none after the first stop.
C2_ForEachPreOrderStop ==
  fn = "SEQ_for_each_callback" =>
    LET c == args[1]
        user_data == args[2]
    IN /\ NoDup(ret)
       /\ Range(ret) \subseteq StripsBelow(c)
       /\ \A i, j \in 1..Len(ret) : i < j => PreBefore(ret[i], ret[j])
       /\ \A e \in StripsBelow(c) :
            e \in Range(ret) <=>
              ~\E s \in StripsBelow(c) : ~callback(s, user_data) /\ PreBefore(s, e)

\* C2 witness: the callback signalled stop inside a nested seqbase, after
\* at least one call, and a later sibling of the outer list was not visited.
C2_Witness ==
  /\ fn = "SEQ_for_each_callback"
  /\ Len(ret) >= 2
  /\ ~callback(ret[Len(ret)], args[2])
  /\ ContainerOf(ret[Len(ret)]) /= args[1]
  /\ \E e \in Range(seqbase[args[1]]) : e \notin Range(ret)

\* C10: SEQ_query_all_strips_recursive returns every strip of the container
\* and of its nested containers exactly once, in post-order.
C10_QueryAllPostOrder ==
  fn = "SEQ_query_all_strips_recursive" =>
    /\ NoDup(ret)
    /\ Range(ret) = StripsBelow(args[1])
    /\ \A i, j \in 1..Len(ret) : i < j => PostBefore(ret[i], ret[j])

\* C10 witness: the result holds a meta strip right after its nested strip
\* and before its next sibling.
C10_Witness ==
  /\ fn = "SEQ_query_all_strips_recursive"
  /\ \E i \in 2..(Len(ret) - 1) :
       /\ type[ret[i]] = "META"
       /\ ret[i - 1] \in Range(seqbase[ret[i]])
       /\ ContainerOf(ret[i + 1]) = ContainerOf(ret[i])

\* The strips a lookup may return.
LookupCandidates(c, nm, recursive) ==
  {e \in IF recursive THEN StripsBelow(c) ELSE Range(seqbase[c]) : name[e] = nm}

\* C7 as stated: with recursive = true a direct child of the requested name
\* wins over every nested strip; without a match the result is null; with
\* recursive = false only direct children are returned.
C7_DirectChildrenFirst ==
  fn = "SEQ_get_sequence_by_name" =>
    LET c == args[1]
        nm == args[2]
        recursive == args[3]
        direct == {i \in 1..Len(seqbase[c]) : name[seqbase[c][i]] = nm}
    IN /\ direct /= {} => ret = seqbase[c][Min(direct)]
       /\ LookupCandidates(c, nm, recursive) = {} => ret = NULL
       /\ ~recursive /\ ret /= NULL => ret \in Range(seqbase[c])

\* C7 amended: the result is the first strip of the requested name in
\* pre-order (among the direct children only when recursive = false), and
\* null when there is none.
C7_FirstInPreOrder ==
  fn = "SEQ_get_sequence_by_name" =>
    LET cand == LookupCandidates(args[1], args[2], args[3])
    IN IF cand = {} THEN ret = NULL
       ELSE ret \in cand /\ \A e \in cand \ {ret} : PreBefore(ret, e)

\* C7 witness: a recursive lookup returned a strip nested in an earlier
\* sibling although a later direct child carries the name too.
C7_Witness ==
  /\ fn = "SEQ_get_sequence_by_name"
  /\ args[3]
  /\ ret /= NULL
  /\ ret \notin Range(seqbase[args[1]])
  /\ \E e \in Range(seqbase[args[1]]) : name[e] = args[2]

------------------------------------------------------------------------------
(* Effect chain: SEQ_query_strip_effect_chain, one action per invocation or
   return of the recursive function *)

MaxChain == 3
\* strips of the seqbase of SpecChain

ChainStrips == 1..MaxChain

\* type & SEQ_TYPE_EFFECT: the effect types, generators included.
IsEffect(t) == t \in {"CROSS", "COLOR"}

\* The call sites of one invocation, in program order: 1 is the call on
\* seq1, 2 the call on seq2, 2 + i the call in the loop over the seqbase at
\* its i-th strip.  The strip a site calls the function on, NULL when its
\* condition fails and it makes no call.
ChainSiteTarget(reference_strip, site) ==
  IF site = 1
    THEN IF IsEffect(type[reference_strip]) THEN seq1[reference_strip] ELSE NULL
  ELSE IF site = 2
    THEN IF IsEffect(type[reference_strip]) THEN seq2[reference_strip] ELSE NULL
  ELSE LET seq_test == seqbase[0][site - 2]
       IN IF seq1[seq_test] = reference_strip \/ seq2[seq_test] = reference_strip
            THEN seq_test
            ELSE NULL

\* The call sites of an invocation on reference_strip that make a call and
\* lie at or after site `from`.
ChainSitesLeft(reference_strip, from) ==
  {site \in from..(2 + Len(seqbase[0])) : ChainSiteTarget(reference_strip, site) /= NULL}

\* Mutant: the membership test at the head of the function is dropped.
ChainAlreadyInSet_NoTest(keys, reference_strip) == FALSE

\* strips.contains(reference_strip): the function returns at once.
ChainAlreadyInSet(keys, reference_strip) == reference_strip \in Range(keys)

\* Mutant: the loop over the seqbase that finds the strips using
\* reference_strip as an input is dropped.
ChainSites_InputsOnly(reference_strip, from) ==
  {site \in ChainSitesLeft(reference_strip, from) : site <= 2}

\* The call sites the running invocation still has to execute.
ChainSites(reference_strip, from) == ChainSitesLeft(reference_strip, from)

\* An invocation on reference_strip, made with the stack `frames` below it.
ChainInvoke(reference_strip, frames) ==
  /\ ncalls' = ncalls + 1
  /\ IF ChainAlreadyInSet(strips, reference_strip)
       THEN /\ strips' = strips
            /\ expanded' = expanded
            /\ stack' = frames
       ELSE /\ strips' = Append(strips, reference_strip)
            /\ expanded' = [expanded EXCEPT ![reference_strip] = @ + 1]
            /\ stack' = Append(frames, [reference_strip |-> reference_strip, site |-> 1])

\* The seqbases of SpecChain: a flat root seqbase whose effect strips take
\* any strips of it as inputs, themselves and cycles included.
InitChain ==
  /\ seqbase = [c \in 0..MaxChain |-> IF c = 0 THEN Ascending(ChainStrips) ELSE <<>>]
  /\ type \in [ChainStrips -> {"IMAGE", "CROSS"}]
  /\ seq1 \in [ChainStrips -> {NULL} \cup ChainStrips]
  /\ seq2 \in [ChainStrips -> {NULL} \cup ChainStrips]
  /\ \A e \in ChainStrips :
       IF IsEffect(type[e])
         THEN seq1[e] /= NULL /\ (seq2[e] = NULL \/ seq2[e] > seq1[e])
         ELSE seq1[e] = NULL /\ seq2[e] = NULL
  /\ name = [e \in ChainStrips |-> <<"a">>]
  /\ NoRenderState(ChainStrips)
  /\ NoWork(ChainStrips)
  /\ NoCall

\* The caller's invocation, on an empty VectorSet.
QueryStripEffectChain ==
  \E reference_strip \in ChainStrips :
    /\ fn = "none"
    /\ fn' = "SEQ_query_strip_effect_chain"
    /\ args' = <<reference_strip>>
    /\ ret' = ret
    /\ ChainInvoke(reference_strip, <<>>)
    /\ UNCHANGED <<snapVars, treeVars, stripVars>>

\* The running invocation reaches its next call and makes it.
ChainRecurse ==
  /\ stack /= <<>>
  /\ LET top == stack[Len(stack)]
         left == ChainSites(top.reference_strip, top.site)
     IN /\ left /= {}
        /\ ChainInvoke(
             ChainSiteTarget(top.reference_strip, Min(left)),
             [stack EXCEPT ![Len(stack)].site = Min(left) + 1])
  /\ UNCHANGED <<snapVars, treeVars, stripVars, callVars>>

\* The running invocation has no call left and returns.
ChainReturn ==
  /\ stack /= <<>>
  /\ LET top == stack[Len(stack)]
     IN ChainSites(top.reference_strip, top.site) = {}
  /\ stack' = SubSeq(stack, 1, Len(stack) - 1)
  /\ UNCHANGED <<snapVars, treeVars, stripVars, callVars, strips, ncalls, expanded>>

NextChain == QueryStripEffectChain \/ ChainRecurse \/ ChainReturn

SpecChain == InitChain /\ [][NextChain]_vars

\* The query has returned to its caller.
ChainDone == fn = "SEQ_query_strip_effect_chain" /\ stack = <<>>

\* Every invocation in progress makes its next call or returns.
FairSpecChain == SpecChain /\ WF_vars(ChainRecurse \/ ChainReturn)

------------------------------------------------------------------------------
(* Claims about the effect chain (SpecChain) *)

\* a is an input of b or b is an input of a.
ChainLinked(a, b) ==
  \/ IsEffect(type[a]) /\ b \in {seq1[a], seq2[a]}
  \/ IsEffect(type[b]) /\ a \in {seq1[b], seq2[b]}

\* The strips linked to a strip of S, with S.
ChainGrow(S) == S \cup {b \in ChainStrips : \E a \in S : ChainLinked(a, b)}

RECURSIVE ChainComponentFrom(_)
ChainComponentFrom(S) == IF ChainGrow(S) = S THEN S ELSE ChainComponentFrom(ChainGrow(S))

\* The connected component of a strip under the input references taken in
\* both directions.
ChainComponent(seed) == ChainComponentFrom({seed})

\* C5: the query never goes past the membership test twice for one strip,
\* so the number of invocations is bounded by one plus, per strip, its two
\* inputs and the strips of the seqbase; the depth of the recursion is
\* bounded by the number of strips; the query therefore terminates, cyclic
\* input references included.
C5_ChainExpandsOnce ==
  /\ \A e \in ChainStrips : expanded[e] <= 1
  /\ ncalls <= 1 + MaxChain * (2 + MaxChain)
  /\ Len(stack) <= MaxChain
  /\ NoDup(strips)

\* C5 witness: the query has returned on a seqbase with a cycle of input
\* references (an effect that is its own input through another effect).
C5_Witness ==
  /\ ChainDone
  /\ \E a, b \in ChainStrips :
       /\ a /= b
       /\ IsEffect(type[a]) /\ IsEffect(type[b])
       /\ seq1[a] = b /\ seq1[b] = a
       /\ a \in Range(strips)

\* C5, as a property of behaviours: the query returns.
C5_ChainTerminates == (fn = "SEQ_query_strip_effect_chain") ~> ChainDone

\* C6: started on an empty set, the query returns exactly the connected
\* component of the seed under the input references taken in both
\* directions, each strip once.
C6_ChainIsComponent ==
  ChainDone => Range(strips) = ChainComponent(args[1]) /\ NoDup(strips)

\* C6 witness: the query has returned from a seed that is no effect, with
\* an effect found against the direction of its reference to the seed and
\* that effect's other input found along the reference.
C6_Witness ==
  /\ ChainDone
  /\ ~IsEffect(type[args[1]])
  /\ \E f, x \in Range(strips) :
       /\ x /= args[1]
       /\ ~IsEffect(type[x])
       /\ {seq1[f], seq2[f]} = {args[1], x}

------------------------------------------------------------------------------
(* Unique names: seqbase_unique_name, SEQ_sequence_base_unique_name_recursive
   and SEQ_ensure_unique_name *)

\* sizeof(Strip::name) - 2: the size of the name buffers of SeqUniqueInfo.
SEQ_NAME_MAXSTR == 64

\* The largest value of int, the type of SeqUniqueInfo::count.
INT_MAX == 2147483647

INT_MIN == (0 - INT_MAX) - 1

\* x + 1 on int.  At INT_MAX the behaviour is undefined; the value is the
\* one the add instruction leaves, wrapped around to INT_MIN.
IntSucc(x) == IF x = INT_MAX THEN INT_MIN ELSE x + 1

DigitChars == <<"0", "1", "2", "3", "4", "5", "6", "7", "8", "9">>

IsDigit(ch) == ch \in Range(DigitChars)

DigitValue(ch) == IndexOf(DigitChars, ch) - 1

\* strrchr: the position of the last ch in str, 0 (a null pointer) when
\* there is none.
strrchr(str, ch) ==
  LET at == {i \in 1..Len(str) : str[i] = ch}
  IN IF at = {} THEN 0 ELSE CHOOSE i \in at : \A j \in at : j <= i

\* atoi on a string of letters, digits and dots: the value of its longest
\* prefix of digits, 0 when it starts with no digit.
RECURSIVE atoiFrom(_, _, _)
atoiFrom(str, i, value) ==
  IF i <= Len(str) /\ IsDigit(str[i])
    THEN atoiFrom(str, i + 1, 10 * value + DigitValue(str[i]))
    ELSE value

atoi(str) == atoiFrom(str, 1, 0)

\* The decimal digits of n >= 0.
RECURSIVE Decimal(_)
Decimal(n) ==
  IF n < 10 THEN <<DigitChars[n + 1]>>
  ELSE Decimal(n \div 10) \o <<DigitChars[(n % 10) + 1]>>

\* The decimal digits of -n for n < 0, INT_MIN included.
DecimalOfNegative(n) ==
  LET last == (10 - (n % 10)) % 10
      rest == (0 - (n \div 10)) - (IF n % 10 = 0 THEN 0 ELSE 1)
  IN (IF rest = 0 THEN <<>> ELSE Decimal(rest)) \o <<DigitChars[last + 1]>>

\* Mutant: the number is printed without its leading zeros ("%d").
Format03d_NoPad(n) == Decimal(n)

\* "%03d": at least three characters, padded with zeros on the left; the
\* sign of a negative number comes first and counts as one of them.
Format03d(n) ==
  LET digits == IF n < 0 THEN DecimalOfNegative(n) ELSE Decimal(n)
      sign == IF n < 0 THEN <<"-">> ELSE <<>>
  IN sign \o [i \in 1..(3 - Len(sign) - Len(digits)) |-> "0"] \o digits

Take(str, n) == SubSeq(str, 1, IF n < Len(str) THEN n ELSE Len(str))

\* SNPRINTF(name_dest, "%.*s.%03d", SEQ_NAME_MAXSTR - 4 - 1 - 2, name_src, count).
FormatUniqueName(name_src, count) ==
  Take(Take(name_src, SEQ_NAME_MAXSTR - 4 - 1 - 2) \o <<".">> \o Format03d(count),
       SEQ_NAME_MAXSTR - 1)

\* The SeqUniqueInfo that SEQ_sequence_base_unique_name_recursive sets up for
\* seq before its loop: the name with its suffix stripped off, the counter
\* recovered from the suffix.
UniqueInfoInit(seq, names) ==
  LET dot == strrchr(names[seq], ".")
  IN [seq |-> seq,
      name_src |-> IF dot = 0 THEN names[seq] ELSE SubSeq(names[seq], 1, dot - 1),
      name_dest |-> names[seq],
      count |-> IF dot /= 0 /\ dot < Len(names[seq])
                  THEN IntSucc(atoi(SubSeq(names[seq], dot + 1, Len(names[seq]))))
                  ELSE 1,
      match |-> 1]

\* One scan of a seqbase: each strip other than sui.seq that carries the
\* candidate name replaces the candidate by the next numbered name.
RECURSIVE seqbase_unique_name(_, _, _)
seqbase_unique_name(list, sui, names) ==
  IF list = <<>> THEN sui
  ELSE seqbase_unique_name(
         Tail(list),
         IF sui.seq /= Head(list) /\ sui.name_dest = names[Head(list)]
           THEN [sui EXCEPT !.name_dest = FormatUniqueName(sui.name_src, sui.count),
                            !.count = IntSucc(sui.count),
                            !.match = 1]
           ELSE sui,
         names)

\* Mutant: the callback scans nothing, so only the seqbase passed in is
\* searched for the candidate name.
seqbase_unique_name_recursive_fn_NoScan(seq, sui, names) == sui

\* The callback handed to SEQ_for_each_callback: scans the seqbase of a strip
\* that has one.  It always returns true.
seqbase_unique_name_recursive_fn(seq, sui, names) ==
  IF seqbase[seq] /= <<>> THEN seqbase_unique_name(seqbase[seq], sui, names) ELSE sui

\* The callback applied along the calls of SEQ_for_each_callback.
RECURSIVE UniqueNameForEach(_, _, _)
UniqueNameForEach(calls, sui, names) ==
  IF calls = <<>> THEN sui
  ELSE UniqueNameForEach(
         Tail(calls), seqbase_unique_name_recursive_fn(Head(calls), sui, names), names)

\* One iteration of the loop body: the scan of the seqbase passed in, then
\* the scan of every seqbase nested below it.
UniqueNamePass(c, sui, names) ==
  UniqueNameForEach(
    SEQ_for_each_callback(c, {}),
    seqbase_unique_name(seqbase[c], [sui EXCEPT !.match = 0], names),
    names)

\* Mutant: the loop body runs once and its re-scan request is ignored.
RECURSIVE UniqueNameLoop_OnePass(_, _, _)
UniqueNameLoop_OnePass(c, sui, names) ==
  IF sui.match = 0 THEN sui
  ELSE [UniqueNamePass(c, sui, names) EXCEPT !.match = 0]

\* while (sui.match) { ... }
RECURSIVE UniqueNameLoop(_, _, _)
UniqueNameLoop(c, sui, names) ==
  IF sui.match = 0 THEN sui
  ELSE UniqueNameLoop(c, UniqueNamePass(c, sui, names), names)

\* The names after SEQ_sequence_base_unique_name_recursive(scene, seqbasep,
\* seq) on the names `names`: SEQ_edit_sequence_name_set commits the
\* candidate the loop ends with.
SEQ_sequence_base_unique_name_recursive(c, seq, names) ==
  [names EXCEPT ![seq] = UniqueNameLoop(c, UniqueInfoInit(seq, names), names).name_dest]

\* Mutant: a strip is made unique within the seqbase that holds it.
EnsureScope_OwnSeqbase(seq) == ContainerOf(seq)

\* The seqbase SEQ_ensure_unique_name passes as the scope: &scene->ed->seqbase.
EnsureScope(seq) == 0

\* The names after SEQ_ensure_unique_name(seq, scene): the strip, then, for a
\* meta strip, each strip of its seqbase in turn.
RECURSIVE ensure_unique_name(_, _, _)
ensure_unique_name(seq, rest, names) ==
  LET renamed == SEQ_sequence_base_unique_name_recursive(EnsureScope(seq), seq, names)
      nested == IF type[seq] = "META"
                  THEN IF seqbase[seq] = <<>> THEN renamed
                       ELSE ensure_unique_name(
                              Head(seqbase[seq]), Tail(seqbase[seq]), renamed)
                  ELSE renamed
  IN IF rest = <<>> THEN nested
     ELSE ensure_unique_name(Head(rest), Tail(rest), nested)

SEQ_ensure_unique_name(seq, names) == ensure_unique_name(seq, <<>>, names)

------------------------------------------------------------------------------
(* SpecName: one unique-name operation applied to every small seqbase tree *)

Strip == <<"S">>
Strip001 == <<"S", ".", "0", "0", "1">>
Strip002 == <<"S", ".", "0", "0", "2">>

\* The names of the initial trees: a name without suffix, its first two
\* numbered names, and a name whose suffix numbers up to two digits.
InitialNames == {Strip, Strip001, Strip002, <<"T", ".", "9">>}

InitName ==
  /\ \E p \in Parents :
       /\ seqbase = SeqbaseOf(p)
       /\ type \in TreeTypes(p)
  /\ name \in [TreeStrips -> InitialNames]
  /\ NoInputs(TreeStrips)
  /\ NoRenderState(TreeStrips)
  /\ NoWork(TreeStrips)
  /\ NoCall

SequenceBaseUniqueNameRecursive ==
  \E c \in Containers, seq \in TreeStrips :
    /\ fn = "none"
    /\ fn' = "SEQ_sequence_base_unique_name_recursive"
    /\ args' = <<c, seq>>
    /\ old_name' = name
    /\ name' = SEQ_sequence_base_unique_name_recursive(c, seq, name)
    /\ ret' = <<>>
    /\ UNCHANGED <<seqbase, type, stripVars, workVars>>

EnsureUniqueName ==
  \E seq \in TreeStrips :
    /\ fn = "none"
    /\ fn' = "SEQ_ensure_unique_name"
    /\ args' = <<seq>>
    /\ old_name' = name
    /\ name' = SEQ_ensure_unique_name(seq, name)
    /\ ret' = <<>>
    /\ UNCHANGED <<seqbase, type, stripVars, workVars>>

NextName == SequenceBaseUniqueNameRecursive \/ EnsureUniqueName

SpecName == InitName /\ [][NextName]_vars

------------------------------------------------------------------------------
(* Claims about the unique names (SpecName) *)

\* C4: after SEQ_sequence_base_unique_name_recursive(scope, element) the
\* element's name differs from the name of every other strip of the scope
\* seqbase and of the seqbases nested below it.
C4_UniqueInScope ==
  fn = "SEQ_sequence_base_unique_name_recursive" =>
    \A other \in StripsBelow(args[1]) \ {args[2]} : name[other] /= name[args[2]]

\* C4 witness: the element was renamed because of a strip in a nested
\* seqbase, and also differs from a direct child that carries the first
\* numbered name.
C4_Witness ==
  /\ fn = "SEQ_sequence_base_unique_name_recursive"
  /\ name[args[2]] /= old_name[args[2]]
  /\ \A other \in Range(seqbase[args[1]]) \ {args[2]} :
       old_name[other] /= old_name[args[2]]
  /\ \E other \in StripsBelow(args[1]) \ {args[2]} :
       old_name[other] = old_name[args[2]]

\* The scope and the element of the last rename of a single element.
RenameScope == IF fn = "SEQ_ensure_unique_name" THEN 0 ELSE args[1]
RenameElement == IF fn = "SEQ_ensure_unique_name" THEN args[1] ELSE args[2]

\* Some strip of the scope other than the element carried name n.
NameTaken(n) ==
  \E other \in StripsBelow(RenameScope) \ {RenameElement} : old_name[other] = n

\* C9: an element whose name has no dot, resolved against a scope in which
\* another strip carries that name, gets the name + ".001" when that is
\* free, and the name + ".002" when ".001" is taken and ".002" is free; no
\* other strip is renamed.  So "Strip", "Strip.001", "Strip" end as "Strip",
\* "Strip.001", "Strip.002".
C9_SuffixNumbering ==
  (\/ fn = "SEQ_sequence_base_unique_name_recursive"
   \/ fn = "SEQ_ensure_unique_name" /\ type[args[1]] /= "META") =>
    LET base == old_name[RenameElement]
        n001 == base \o <<".", "0", "0", "1">>
        n002 == base \o <<".", "0", "0", "2">>
    IN /\ \A other \in TreeStrips \ {RenameElement} : name[other] = old_name[other]
       /\ "." \notin Range(base) /\ NameTaken(base) =>
            /\ ~NameTaken(n001) => name[RenameElement] = n001
            /\ NameTaken(n001) /\ ~NameTaken(n002) => name[RenameElement] = n002

\* C9 witness: one seqbase held "Strip", "Strip.001" and a second "Strip";
\* the duplicate was resolved to "Strip.002".
C9_Witness ==
  /\ fn = "SEQ_ensure_unique_name"
  /\ Len(seqbase[0]) = 3
  /\ args[1] = seqbase[0][3]
  /\ old_name[seqbase[0][1]] = Strip
  /\ old_name[seqbase[0][2]] = Strip001
  /\ old_name[seqbase[0][3]] = Strip
  /\ name[seqbase[0][3]] = Strip002

\* C8 as stated: when SEQ_ensure_unique_name is applied to a meta strip, a
\* strip of its seqbase whose name no other strip inside that seqbase (or
\* nested below it) carries keeps its name.
C8_ChildScopeIsOwnSeqbase ==
  fn = "SEQ_ensure_unique_name" /\ type[args[1]] = "META" =>
    \A child \in Range(seqbase[args[1]]) :
      (\A other \in StripsBelow(args[1]) \ {child} : old_name[other] /= old_name[child])
        => name[child] = old_name[child]

\* C8 amended: the strips of the meta strip's seqbase are made unique within
\* the scene's root seqbase and everything nested below it: afterwards a
\* child's name differs from every other strip's, a child whose name no
\* other strip of the whole tree carried keeps it, and a child whose name a
\* strip outside the meta strip carried is renamed.
C8_ChildScopeIsRoot ==
  fn = "SEQ_ensure_unique_name" /\ type[args[1]] = "META" =>
    \A child \in Range(seqbase[args[1]]) :
      /\ \A other \in StripsBelow(0) \ {child} : name[other] /= name[child]
      /\ (\A other \in StripsBelow(0) \ {child} : old_name[other] /= old_name[child])
           => name[child] = old_name[child]
      /\ (\E other \in StripsBelow(0) \ (StripsBelow(args[1]) \cup {args[1]}) :
            old_name[other] = old_name[child])
           => name[child] /= old_name[child]

\* C8 witness: a child whose name was unique inside the meta strip was
\* renamed because a sibling of the meta strip in the root seqbase carried
\* the same name.
C8_Witness ==
  /\ fn = "SEQ_ensure_unique_name"
  /\ type[args[1]] = "META"
  /\ \E child \in Range(seqbase[args[1]]) :
       /\ \A other \in StripsBelow(args[1]) \ {child} : old_name[other] /= old_name[child]
       /\ old_name[args[1]] /= old_name[child]
       /\ \E other \in Range(seqbase[0]) \ {args[1]} : old_name[other] = old_name[child]
       /\ name[child] /= old_name[child]

------------------------------------------------------------------------------
(* Rendered strips: must_render_strip, collection_filter_rendered_strips and
   SEQ_query_rendered_strips.  A VectorSet is the sequence of its keys in
   insertion order. *)

MaxStack == 3
\* strips of the seqbase of SpecRender, all of them at the queried frame
MaxEffects == 2
\* effect strips with an input among them
MaxSpecial == 1
\* strips among them that are muted, sound strips or generators

StackStrips == 1..MaxStack

\* SEQ_effect_get_num_inputs: a generator takes none.  The value is used
\* only through its comparison with 0.
SEQ_effect_get_num_inputs(t) == IF t = "CROSS" THEN 2 ELSE 0

\* SEQ_relation_is_effect_of_strip: input is one of the two inputs of effect.
SEQ_relation_is_effect_of_strip(effect, input) == input \in {seq1[effect], seq2[effect]}

\* SEQ_render_is_muted(channels, strip).
SEQ_render_is_muted(strip) == strip \in muted

\* The loop of must_render_strip with the effect flag never set.
RECURSIVE must_render_strip_from_NoFlag(_, _, _)
must_render_strip_from_NoFlag(rest, strip, seq_have_effect_in_stack) ==
  IF rest = <<>>
    THEN IF IsEffect(type[strip]) /\ SEQ_effect_get_num_inputs(type[strip]) /= 0
           THEN TRUE
           ELSE ~seq_have_effect_in_stack
  ELSE LET strip_iter == Head(rest)
       IN IF blend_mode[strip_iter] = "REPLACE" /\ machine[strip] < machine[strip_iter]
            THEN FALSE
          ELSE IF /\ IsEffect(type[strip_iter])
                  /\ SEQ_relation_is_effect_of_strip(strip_iter, strip)
                  /\ machine[strip] >= machine[strip_iter]
            THEN TRUE
          ELSE must_render_strip_from_NoFlag(Tail(rest), strip, seq_have_effect_in_stack)

\* The loop of must_render_strip over the keys still to visit, then the
\* conditions after the loop.
RECURSIVE must_render_strip_from(_, _, _)
must_render_strip_from(rest, strip, seq_have_effect_in_stack) ==
  IF rest = <<>>
    THEN IF IsEffect(type[strip]) /\ SEQ_effect_get_num_inputs(type[strip]) /= 0
           THEN TRUE
           ELSE ~seq_have_effect_in_stack
  ELSE LET strip_iter == Head(rest)
       IN IF blend_mode[strip_iter] = "REPLACE" /\ machine[strip] < machine[strip_iter]
            THEN FALSE
          ELSE IF /\ IsEffect(type[strip_iter])
                  /\ SEQ_relation_is_effect_of_strip(strip_iter, strip)
            THEN IF machine[strip] >= machine[strip_iter]
                   THEN TRUE
                   ELSE must_render_strip_from(Tail(rest), strip, TRUE)
          ELSE must_render_strip_from(Tail(rest), strip, seq_have_effect_in_stack)

must_render_strip(keys, strip) == must_render_strip_from(keys, strip, FALSE)

\* The keys of a VectorSet without key; the other keys keep their order.
VectorSetRemove(keys, key) == SelectSeq(keys, LAMBDA k : k /= key)

\* The orders in which a remove_if can hand the keys to its predicate.
VisitOrders(keys) ==
  {visit \in [1..Len(keys) -> Range(keys)] : Range(visit) = Range(keys)}

\* strips.remove_if(!must_render_strip(strips, strip)): the keys are handed
\* to the predicate in the order visit; the predicate reads the set as it
\* stands at that moment, the keys removed so far gone from it.
RECURSIVE remove_if_not_rendered(_, _)
remove_if_not_rendered(visit, keys) ==
  IF visit = <<>> THEN keys
  ELSE remove_if_not_rendered(
         Tail(visit),
         IF ~must_render_strip(keys, Head(visit))
           THEN VectorSetRemove(keys, Head(visit))
           ELSE keys)

\* The set that must_render_strip reads when remove_if calls it for strip.
RECURSIVE remove_if_keys_at(_, _, _)
remove_if_keys_at(visit, keys, strip) ==
  IF Head(visit) = strip THEN keys
  ELSE remove_if_keys_at(Tail(visit), remove_if_not_rendered(<<Head(visit)>>, keys), strip)

\* The calls that remove_if makes of must_render_strip, listed in the order
\* of the set it began with: the strip asked about and the set read.
remove_if_calls(visit, keys) ==
  [i \in 1..Len(keys) |->
     [strip |-> keys[i], keys |-> remove_if_keys_at(visit, keys, keys[i])]]

\* The first remove_if of collection_filter_rendered_strips: sound strips
\* and muted strips.  Its predicate reads no set, so the order of its calls
\* is immaterial.
remove_if_sound_or_muted(keys) ==
  SelectSeq(keys, LAMBDA strip : ~(type[strip] = "SOUND_RAM" \/ SEQ_render_is_muted(strip)))

collection_filter_rendered_strips(keys, visit) ==
  remove_if_not_rendered(visit, remove_if_sound_or_muted(keys))

\* All strips of the seqbase intersect the frame.
query_strips_at_frame == seqbase[0]

collection_filter_channel_up_to_incl(keys, channel) ==
  SelectSeq(keys, LAMBDA strip : ~(machine[strip] > channel))

\* The strips SEQ_query_rendered_strips hands to
\* collection_filter_rendered_strips.
RenderedStripsInput(displayed_channel) ==
  IF displayed_channel /= 0
    THEN collection_filter_channel_up_to_incl(query_strips_at_frame, displayed_channel)
    ELSE query_strips_at_frame

SEQ_query_rendered_strips(displayed_channel, visit) ==
  collection_filter_rendered_strips(RenderedStripsInput(displayed_channel), visit)

------------------------------------------------------------------------------
(* SpecRender: the query applied to every small stack of strips *)

StackSizes == 2..MaxStack

\* Channels are only compared, so the channels in use are numbered from 1
\* without a gap; strips may share a channel.
StackChannels(n) ==
  {m \in [StackStrips -> 1..MaxStack] :
     /\ \A e \in StackStrips \ (1..n) : m[e] = 1
     /\ \A c \in 1..MaxStack :
          (\E e \in 1..n : m[e] > c) => \E e \in 1..n : m[e] = c}

\* The seqbase holds strips 1..n; the other strips are in no seqbase.
InitRender ==
  \E n \in StackSizes :
    /\ seqbase = [c \in 0..MaxStack |-> IF c = 0 THEN Ascending(1..n) ELSE <<>>]
    /\ machine \in StackChannels(n)
    /\ type \in [StackStrips -> {"IMAGE", "SOUND_RAM", "COLOR", "CROSS"}]
    /\ Cardinality({e \in StackStrips : type[e] = "CROSS"}) <= MaxEffects
    /\ seq1 \in [StackStrips -> {NULL} \cup (1..n)]
    /\ \A e \in StackStrips :
         IF type[e] = "CROSS" THEN seq1[e] \notin {NULL, e} ELSE seq1[e] = NULL
    /\ seq2 = [e \in StackStrips |-> NULL]
    /\ blend_mode \in [StackStrips -> {"REPLACE", "ALPHAOVER"}]
    /\ \A e \in StackStrips : type[e] \in {"SOUND_RAM", "COLOR"} => blend_mode[e] = "ALPHAOVER"
    /\ muted \in SUBSET (1..n)
    /\ \A e \in muted : type[e] = "IMAGE" /\ blend_mode[e] = "REPLACE"
    /\ Cardinality(muted \cup {e \in StackStrips : type[e] \in {"SOUND_RAM", "COLOR"}}) <= MaxSpecial
    /\ \A e \in StackStrips \ (1..n) : type[e] = "IMAGE" /\ blend_mode[e] = "ALPHAOVER"
    /\ name = [e \in StackStrips |-> <<"a">>]
    /\ NoWork(StackStrips)
    /\ NoCall

\* ret keeps the set left by the first remove_if, stack the call the second
\* remove_if made of must_render_strip for each strip of it, strips the set
\* returned.
QueryRenderedStrips ==
  \E displayed_channel \in {0, MaxStack - 1} :
    \E visit \in VisitOrders(remove_if_sound_or_muted(RenderedStripsInput(displayed_channel))) :
      /\ fn = "none"
      /\ fn' = "SEQ_query_rendered_strips"
      /\ args' = <<displayed_channel>>
      /\ ret' = remove_if_sound_or_muted(RenderedStripsInput(displayed_channel))
      /\ stack' = remove_if_calls(visit, remove_if_sound_or_muted(RenderedStripsInput(displayed_channel)))
      /\ strips' = SEQ_query_rendered_strips(displayed_channel, visit)
      /\ UNCHANGED <<snapVars, treeVars, stripVars, ncalls, expanded>>

NextRender == QueryRenderedStrips

SpecRender == InitRender /\ [][NextRender]_vars

------------------------------------------------------------------------------
(* Claims about the rendered strips (SpecRender) *)

\* Strip e is an effect that takes inputs.
IsInputEffect(e) == IsEffect(type[e]) /\ SEQ_effect_get_num_inputs(type[e]) /= 0

\* The strips of keys that have blend mode REPLACE and sit on a strictly
\* higher channel than e.
ReplaceAbove(keys, e) ==
  {r \in Range(keys) : blend_mode[r] = "REPLACE" /\ machine[r] > machine[e]}

\* The effects of keys that have e as a direct input.
Consumers(keys, e) ==
  {f \in Range(keys) : IsEffect(type[f]) /\ SEQ_relation_is_effect_of_strip(f, e)}

\* C1: no strip of the returned set has, in the set left by the sound/mute
\* removal, a strip with blend mode REPLACE on a strictly higher channel,
\* whatever the order of the set and of the calls of the predicate.
C1_ReplaceOccludes ==
  fn = "SEQ_query_rendered_strips" =>
    \A e \in Range(strips) : ReplaceAbove(ret, e) = {}

------------------------------------------------------------------------------
(* SpecLoop: the rename loop of SEQ_sequence_base_unique_name_recursive, one
   iteration of the while loop at a time.  stack holds the SeqUniqueInfo of
   the running call, ret the SeqUniqueInfo before the loop and after each
   iteration, ncalls the iterations so far. *)

\* The names of the initial trees: a name without suffix and the two names
\* whose suffix sets the counter to the last values of int.
LoopNames ==
  {Strip, <<"S", ".">> \o Decimal(INT_MAX - 1), <<"S", ".">> \o Decimal(INT_MAX)}

InitLoop ==
  /\ \E p \in Parents :
       /\ seqbase = SeqbaseOf(p)
       /\ type \in TreeTypes(p)
  /\ name \in [TreeStrips -> LoopNames]
  /\ NoInputs(TreeStrips)
  /\ NoRenderState(TreeStrips)
  /\ NoWork(TreeStrips)
  /\ NoCall

LoopRunning == fn = "SEQ_sequence_base_unique_name_recursive" /\ stack /= <<>>

LoopCommitted == fn = "SEQ_sequence_base_unique_name_recursive" /\ stack = <<>>

\* The call up to the while loop.
UniqueNameBegin ==
  \E c \in Containers, seq \in TreeStrips :
    /\ fn = "none"
    /\ fn' = "SEQ_sequence_base_unique_name_recursive"
    /\ args' = <<c, seq>>
    /\ old_name' = name
    /\ stack' = <<UniqueInfoInit(seq, name)>>
    /\ ret' = <<UniqueInfoInit(seq, name)>>
    /\ ncalls' = 0
    /\ UNCHANGED <<treeVars, stripVars, strips, expanded>>

\* One iteration of the while loop.
UniqueNameIterate ==
  /\ LoopRunning
  /\ stack[1].match /= 0
  /\ stack' = <<UniqueNamePass(args[1], stack[1], name)>>
  /\ ret' = Append(ret, UniqueNamePass(args[1], stack[1], name))
  /\ ncalls' = ncalls + 1
  /\ UNCHANGED <<treeVars, stripVars, strips, expanded, fn, args, snapVars>>

\* The loop is left and SEQ_edit_sequence_name_set commits the candidate.
UniqueNameCommit ==
  /\ LoopRunning
  /\ stack[1].match = 0
  /\ name' = [name EXCEPT ![args[2]] = stack[1].name_dest]
  /\ stack' = <<>>
  /\ UNCHANGED <<seqbase, type, stripVars, strips, ncalls, expanded, callVars, snapVars>>

NextLoop == UniqueNameBegin \/ UniqueNameIterate \/ UniqueNameCommit

SpecLoop == InitLoop /\ [][NextLoop]_vars

\* The loop is scheduled as long as the call runs.
FairSpecLoop == SpecLoop /\ WF_vars(UniqueNameIterate \/ UniqueNameCommit)

------------------------------------------------------------------------------
(* Claims about the rename loop (SpecLoop) *)

\* The number that the suffix of a name carries, 0 when it has none.
SuffixNumber(str) ==
  IF strrchr(str, ".") = 0 THEN 0
  ELSE atoi(SubSeq(str, strrchr(str, ".") + 1, Len(str)))

C11_RenameLoopTerminates == LoopRunning ~> LoopCommitted

\* The iterations of one call never outnumber the strips of the tree.
C11_RenameLoopIterations ==
  fn = "SEQ_sequence_base_unique_name_recursive" => ncalls <= MaxStrips

------------------------------------------------------------------------------
(* The order of the rendered-strips filter (SpecRender) *)

\* The strips of keys that must_render_strip keeps when it reads the whole
\* of keys for each of them.
RenderedOfCompleteSet(keys) == {e \in Range(keys) : must_render_strip(keys, e)}

\* C12: the returned set is the set of the strips that must_render_strip
\* keeps against the complete set left by the sound/mute removal, and it is
\* the same for every order of that set and every order in which the strips
\* are decided.
C12_FilterOrderIndependent ==
  fn = "SEQ_query_rendered_strips" =>
    /\ Range(strips) = RenderedOfCompleteSet(ret)
    /\ \A keys \in VisitOrders(ret), visit \in VisitOrders(ret) :
         Range(remove_if_not_rendered(visit, keys)) = Range(strips)

====
